---- MODULE Spec2Model ----
(***************************************************************************)
(* A model of pysloc.py: the line classifier (is_code_line), the ignore    *)
(* matcher (should_ignore), the tree walker (iter_python_files), the file  *)
(* counter (count_file_loc) and the aggregator (count_loc).                *)
(*                                                                         *)
(* Text is modelled as a sequence of one-character strings, so that the    *)
(* string functions the code relies on (str.strip, str.split,              *)
(* os.path.abspath / relpath / join / basename, fnmatch.fnmatch) are       *)
(* computed character by character as the library computes them.           *)
(***************************************************************************)
EXTENDS Integers, Sequences, FiniteSets, TLC

(***************************************************************************)
(* Bounds of the model.                                                    *)
(***************************************************************************)
\* longest ignore-pattern list handed to count_loc / should_ignore
MaxPatterns == 1
\* most lines a failing read delivers before it raises OSError
MaxReadOk == 1
\* longest line handed to is_code_line in the classifier specification
MaxLineLen == 3

(***************************************************************************)
(* Generic helpers on sequences.                                           *)
(***************************************************************************)
EmptyMap == [x \in {} |-> 0]

RECURSIVE SeqsUpTo(_, _)
\* all sequences over S of length at most n
SeqsUpTo(S, n) ==
    IF n = 0 THEN {<<>>}
    ELSE LET shorter == SeqsUpTo(S, n - 1)
         IN  shorter \cup {Append(s, x) : s \in {t \in shorter : Len(t) = n - 1}, x \in S}

\* all orderings of the finite set S, as sequences without repetition
Perms(S) ==
    {s \in [1..Cardinality(S) -> S] : \A i, j \in 1..Cardinality(S) : s[i] = s[j] => i = j}

RECURSIVE SumMap(_)
\* sum of the values of a finite map (sum(d.values()))
SumMap(f) ==
    IF DOMAIN f = {} THEN 0
    ELSE LET k == CHOOSE x \in DOMAIN f : TRUE
         IN  f[k] + SumMap([y \in DOMAIN f \ {k} |-> f[y]])

StartsWith(s, p) == Len(s) >= Len(p) /\ SubSeq(s, 1, Len(p)) = p

EndsWith(s, p) == Len(s) >= Len(p) /\ SubSeq(s, Len(s) - Len(p) + 1, Len(s)) = p

RECURSIVE IndexFrom(_, _, _)
\* index of the first occurrence of character c in s at or after i, 0 when absent
IndexFrom(s, c, i) ==
    IF i > Len(s) THEN 0
    ELSE IF s[i] = c THEN i
    ELSE IndexFrom(s, c, i + 1)

\* index of the first occurrence of character c in s, 0 when absent (s.find(c) + 1)
FirstIndex(s, c) == IndexFrom(s, c, 1)

RECURSIVE IndexBack(_, _, _)
\* index of the last occurrence of character c in s at or before i, 0 when absent
IndexBack(s, c, i) ==
    IF i = 0 THEN 0
    ELSE IF s[i] = c THEN i
    ELSE IndexBack(s, c, i - 1)

\* index of the last occurrence of character c in s, 0 when absent (s.rfind(c) + 1)
LastIndex(s, c) == IndexBack(s, c, Len(s))

(***************************************************************************)
(* str.strip and str.split('#', 1)[0], as is_code_line uses them.          *)
(***************************************************************************)
\* the whitespace characters of the model's alphabet (str.strip() strips these)
Whitespace == {" ", "\t", "\n"}

RECURSIVE LStrip(_)
LStrip(s) == IF s # <<>> /\ Head(s) \in Whitespace THEN LStrip(Tail(s)) ELSE s

RECURSIVE RStrip(_)
RStrip(s) ==
    IF s # <<>> /\ s[Len(s)] \in Whitespace THEN RStrip(SubSeq(s, 1, Len(s) - 1)) ELSE s

Strip(s) == RStrip(LStrip(s))

\* s.split('#', 1)[0]: the text before the first '#', all of s when there is none
BeforeHash(s) ==
    LET k == FirstIndex(s, "#")
    IN  IF k = 0 THEN s ELSE SubSeq(s, 1, k - 1)

\* a plausible slip: the checks are made on the raw line, not on the stripped one
is_code_line_raw(line) ==
    IF line = <<>> THEN FALSE
    ELSE IF StartsWith(line, <<"#">>) THEN FALSE
    ELSE TRUE

is_code_line(line) ==
    LET stripped == Strip(line)
    IN  IF stripped = <<>> THEN FALSE
        ELSE IF StartsWith(stripped, <<"#">>) THEN FALSE
        ELSE Strip(BeforeHash(stripped)) # <<>>

(***************************************************************************)
(* posixpath: isabs, join, basename, normpath, abspath, relpath.           *)
(***************************************************************************)
Slash == <<"/">>

IsAbs(p) == StartsWith(p, Slash)

\* os.path.join(a, b)
PathJoin(a, b) ==
    IF IsAbs(b) THEN b
    ELSE IF a = <<>> \/ EndsWith(a, Slash) THEN a \o b
    ELSE a \o Slash \o b

\* os.path.basename(p): what follows the last '/'
BaseName(p) == SubSeq(p, LastIndex(p, "/") + 1, Len(p))

RECURSIVE Split(_)
\* p.split('/')
Split(p) ==
    LET k == FirstIndex(p, "/")
    IN  IF k = 0 THEN <<p>>
        ELSE <<SubSeq(p, 1, k - 1)>> \o Split(SubSeq(p, k + 1, Len(p)))

RECURSIVE JoinComps(_)
\* '/'.join(comps)
JoinComps(comps) ==
    IF comps = <<>> THEN <<>>
    ELSE IF Len(comps) = 1 THEN comps[1]
    ELSE comps[1] \o Slash \o JoinComps(Tail(comps))

RECURSIVE NormComps(_, _, _)
\* the component loop of posixpath.normpath: drop '' and '.', let '..' cancel the
\* component before it (kept at the start of a relative path, dropped at '/')
NormComps(comps, acc, abs) ==
    IF comps = <<>> THEN acc
    ELSE LET c == Head(comps)
             DotDot == <<".", ".">>
         IN  IF c = <<>> \/ c = <<".">> THEN NormComps(Tail(comps), acc, abs)
             ELSE IF c # DotDot
                     \/ (~abs /\ acc = <<>>)
                     \/ (acc # <<>> /\ acc[Len(acc)] = DotDot)
                  THEN NormComps(Tail(comps), Append(acc, c), abs)
             ELSE IF acc # <<>>
                  THEN NormComps(Tail(comps), SubSeq(acc, 1, Len(acc) - 1), abs)
             ELSE NormComps(Tail(comps), acc, abs)

\* os.path.normpath(p) (paths of the model never start with two slashes)
NormPath(p) ==
    IF p = <<>> THEN <<".">>
    ELSE LET body == JoinComps(NormComps(Split(p), <<>>, IsAbs(p)))
         IN  IF IsAbs(p) THEN Slash \o body
             ELSE IF body = <<>> THEN <<".">> ELSE body

\* os.path.abspath(p) in a process whose working directory is cwd
AbsPath(p, cwd) == NormPath(PathJoin(cwd, p))

\* the non-empty components of an absolute, normalised path
Comps(p) == SelectSeq(Split(p), LAMBDA c : c # <<>>)

RECURSIVE CommonFrom(_, _, _)
\* with a and b equal before index i: the length of their longest common prefix
CommonFrom(a, b, i) ==
    IF i <= Len(a) /\ i <= Len(b) /\ a[i] = b[i] THEN CommonFrom(a, b, i + 1) ELSE i - 1

\* length of the longest common prefix of two component lists
CommonLen(a, b) == CommonFrom(a, b, 1)

\* os.path.relpath(p, start) in a process whose working directory is cwd
RelPath(p, start, cwd) ==
    LET sl == Comps(AbsPath(start, cwd))
        pl == Comps(AbsPath(p, cwd))
        i  == CommonLen(sl, pl)
        rl == [k \in 1..(Len(sl) - i) |-> <<".", ".">>] \o SubSeq(pl, i + 1, Len(pl))
    IN  IF rl = <<>> THEN <<".">> ELSE JoinComps(rl)

(***************************************************************************)
(* fnmatch.fnmatch(name, pat): '*' any run of characters, '?' one          *)
(* character, '[seq]' / '[!seq]' a character class, a '[' with no closing  *)
(* ']' a literal.  (Character ranges need '-', which no name or pattern of *)
(* the model holds; posixpath.normcase is the identity.)                   *)
(***************************************************************************)
RECURSIVE ScanClose(_, _)
\* the while loop of fnmatch.translate looking for the ']' that closes a class
ScanClose(pat, j) ==
    IF j <= Len(pat) /\ pat[j] # "]" THEN ScanClose(pat, j + 1) ELSE j

\* for a '[' at index b of pat: the index of the ']' closing its class, 0 when
\* the class is not closed (the '[' is then matched literally)
ClassClose(pat, b) ==
    LET j0 == b + 1
        j1 == IF j0 <= Len(pat) /\ pat[j0] = "!" THEN j0 + 1 ELSE j0
        j2 == IF j1 <= Len(pat) /\ pat[j1] = "]" THEN j1 + 1 ELSE j1
        j3 == ScanClose(pat, j2)
    IN  IF j3 > Len(pat) THEN 0 ELSE j3

\* whether character c belongs to the class pat[b..close]
InClass(c, pat, b, close) ==
    LET stuff   == SubSeq(pat, b + 1, close - 1)
        negated == stuff[1] = "!"
        members == {stuff[k] : k \in (IF negated THEN 2 ELSE 1)..Len(stuff)}
    IN  IF negated THEN c \notin members ELSE c \in members

RECURSIVE GlobFrom(_, _, _, _)
\* whether name[i..] matches pat[j..] in full
GlobFrom(name, i, pat, j) ==
    IF j > Len(pat) THEN i > Len(name)
    ELSE IF pat[j] = "*"
         THEN GlobFrom(name, i, pat, j + 1)
              \/ (i <= Len(name) /\ GlobFrom(name, i + 1, pat, j))
    ELSE IF i > Len(name) THEN FALSE
    ELSE IF pat[j] = "?" THEN GlobFrom(name, i + 1, pat, j + 1)
    ELSE IF pat[j] = "[" /\ ClassClose(pat, j) # 0
         THEN LET close == ClassClose(pat, j)
              IN  InClass(name[i], pat, j, close) /\ GlobFrom(name, i + 1, pat, close + 1)
    ELSE name[i] = pat[j] /\ GlobFrom(name, i + 1, pat, j + 1)

FnMatch(name, pat) == GlobFrom(name, 1, pat, 1)

(***************************************************************************)
(* should_ignore(path, ignore_patterns, root_path, include_hidden), in a   *)
(* process whose working directory is cwd.                                 *)
(***************************************************************************)
\* the matching candidates of one pattern: the pattern and its relative or
\* absolute counterpart
Candidates(pattern, root_abs, cwd) ==
    IF IsAbs(pattern)
    THEN <<pattern, RelPath(pattern, root_abs, cwd)>>
    ELSE <<pattern, AbsPath(PathJoin(root_abs, pattern), cwd)>>

\* a plausible slip: patterns are matched against the basename alone
MatchesNameOnly(rel, abs_path, name, candidate) == FnMatch(name, candidate)

\* the test made for one candidate
MatchesCandidate(rel, abs_path, name, candidate) ==
    \/ FnMatch(rel, candidate)
    \/ FnMatch(abs_path, candidate)
    \/ FnMatch(name, candidate)

\* the pattern loop
MatchesAnyPattern(rel, abs_path, name, ignore_patterns, root_abs, cwd) ==
    \E i \in 1..Len(ignore_patterns) :
        LET candidates == Candidates(ignore_patterns[i], root_abs, cwd)
        IN  \E k \in 1..Len(candidates) :
                MatchesCandidate(rel, abs_path, name, candidates[k])

\* a plausible slip: the empty-pattern-list return comes before the hidden check
should_ignore_patterns_first(path, ignore_patterns, root_path, include_hidden, cwd) ==
    LET abs_path == AbsPath(path, cwd)
        root_abs == AbsPath(root_path, cwd)
        rel      == RelPath(abs_path, root_abs, cwd)
        name     == BaseName(path)
    IN  IF ignore_patterns = <<>> THEN FALSE
        ELSE IF ~include_hidden /\ StartsWith(name, <<".">>) THEN TRUE
        ELSE MatchesAnyPattern(rel, abs_path, name, ignore_patterns, root_abs, cwd)

\* (os.path.relpath raises ValueError on POSIX only for an empty path, which no
\* call of the model passes: the fallbacks of lines 89-91 and 108-109 are not taken)
should_ignore(path, ignore_patterns, root_path, include_hidden, cwd) ==
    LET abs_path == AbsPath(path, cwd)
        root_abs == AbsPath(root_path, cwd)
        rel      == RelPath(abs_path, root_abs, cwd)
        name     == BaseName(path)
    IN  IF ~include_hidden /\ StartsWith(name, <<".">>) THEN TRUE
        ELSE IF ignore_patterns = <<>> THEN FALSE
        ELSE MatchesAnyPattern(rel, abs_path, name, ignore_patterns, root_abs, cwd)

(***************************************************************************)
(* The file tree the scans run on.  Directories hold child directories and *)
(* files; a file holds lines.                                              *)
(*                                                                         *)
(*   /r            a.py  e.py  .h.py  n.txt                                *)
(*   /r/sub        b.py  k[b]                                              *)
(*   /r/sub/in     c.py                                                    *)
(*   /r/.git       g.py                                                    *)
(***************************************************************************)
Root == <<"/", "r">>

NSub == <<"s", "u", "b">>

NIn == <<"i", "n">>

NGit == <<".", "g", "i", "t">>

NApy == <<"a", ".", "p", "y">>

NEpy == <<"e", ".", "p", "y">>

NHpy == <<".", "h", ".", "p", "y">>

NTxt == <<"n", ".", "t", "x", "t">>

NBpy == <<"b", ".", "p", "y">>

NKb == <<"k", "[", "b", "]">>

NCpy == <<"c", ".", "p", "y">>

NGpy == <<"g", ".", "p", "y">>

SubDir == PathJoin(Root, NSub)

InDir == PathJoin(SubDir, NIn)

GitDir == PathJoin(Root, NGit)

TreeDirs == {Root, SubDir, InDir, GitDir}

\* the child directories a listing of directory d reports
ChildDirs(d) ==
    CASE d = Root   -> {NSub, NGit}
      [] d = SubDir -> {NIn}
      [] OTHER      -> {}

\* the files a listing of directory d reports
ChildFiles(d) ==
    CASE d = Root   -> {NApy, NEpy, NHpy, NTxt}
      [] d = SubDir -> {NBpy, NKb}
      [] d = InDir  -> {NCpy}
      [] d = GitDir -> {NGpy}
      [] OTHER      -> {}

TreeFiles == {PathJoin(d, n) : d \in TreeDirs, n \in UNION {ChildFiles(e) : e \in TreeDirs}}
                 \cap UNION {{PathJoin(d, n) : n \in ChildFiles(d)} : d \in TreeDirs}

CodeLine == <<"x", "\n">>

BlankLine == <<"\n">>

CommentLine == <<"#", "x", "\n">>

IndentedComment == <<" ", "#", "\n">>

InlineCommentLine == <<"x", " ", "#", "\n">>

\* the lines of file f
Lines(f) ==
    CASE f = PathJoin(Root, NApy) -> <<CodeLine, BlankLine, CommentLine, InlineCommentLine>>
      [] f = PathJoin(Root, NEpy) -> <<CommentLine, IndentedComment>>
      [] f = PathJoin(SubDir, NBpy) -> <<CodeLine>>
      [] f = PathJoin(InDir, NCpy) -> <<BlankLine, CodeLine, CodeLine>>
      [] OTHER -> <<CodeLine>>

\* the files whose reading is made to fail
FaultCandidates == {PathJoin(Root, NApy), PathJoin(SubDir, NBpy), PathJoin(InDir, NCpy)}

\* the ways reading fails: for each file of files, OSError from open(), or from
\* the read loop after ok lines were delivered
NoFault == [files |-> {}, at |-> "open", ok |-> 0]

Faults ==
    {NoFault}
    \cup {[files |-> F, at |-> "open", ok |-> 0] : F \in SUBSET FaultCandidates \ {{}}}
    \cup {[files |-> F, at |-> "read", ok |-> k] :
            F \in SUBSET FaultCandidates \ {{}}, k \in 1..MaxReadOk}

(***************************************************************************)
(* The inputs of a scan.                                                   *)
(***************************************************************************)
\* the ignore patterns scans are run with
Patterns ==
    { NSub,                               \* sub         a directory's basename
      <<".", "*">>,                       \* .*          every hidden name
      PathJoin(SubDir, NIn),              \* /r/sub/in   an absolute path
      PathJoin(NSub, NBpy) }              \* sub/b.py    a path relative to the root

PatternLists == SeqsUpTo(Patterns, MaxPatterns)

\* the root paths scans are run with: the tree's root, a directory given
\* relative to the working directory, a regular file, a path that does not exist
RootPaths ==
    { Root, <<"r", "/", "s", "u", "b">>, PathJoin(Root, NApy), PathJoin(Root, <<"z", "z">>) }

\* the working directory scans are run in
ScanCwds == {Slash}

VARIABLES
    root_path,        \* count_loc's root_path
    ignore_patterns,  \* count_loc's ignore_patterns
    include_hidden,   \* count_loc's include_hidden
    per_file,         \* count_loc's per_file
    cwd,              \* the process's working directory
    fault,            \* the files of the tree that cannot be read, and how
    pc,               \* "start", "walk" (inside the for loop of count_loc), "done"
    run,              \* 1 for the first scan, 2 for the scan repeated
    prev,             \* what the first scan returned
    root_abs,         \* iter_python_files's root_path, made absolute
    stack,            \* os.walk: the directories still to walk, next first
    dirpath,          \* os.walk: the directory whose files are being looked at
    filenames,        \* os.walk: the files of dirpath not yet looked at
    total,            \* count_loc's total
    per_file_dict,    \* count_loc's per_file_dict
    last_path,        \* the path of the latest count_file_loc call
    file_loc,         \* what the latest count_file_loc call returned
    ignoreCalls,      \* what should_ignore returned for each path it was called with
    countCalls,       \* how often count_file_loc was called with each path
    listed,           \* the directories whose children were enumerated
    line,             \* the argument of is_code_line
    is_code,          \* "none", or "yes" / "no": what is_code_line returned
    entry,            \* the absolute path of the entry should_ignore is asked about
    arg_path,         \* the path argument of should_ignore
    ignored           \* "none", or "yes" / "no": what should_ignore returned

vars ==
    << root_path, ignore_patterns, include_hidden, per_file, cwd, fault, pc, run, prev,
       root_abs, stack, dirpath, filenames, total, per_file_dict, last_path, file_loc,
       ignoreCalls, countCalls, listed, line, is_code, entry, arg_path, ignored >>

inputVars == << root_path, ignore_patterns, include_hidden, per_file, cwd, fault >>

lineVars == << line, is_code, entry, arg_path, ignored >>

scanVars ==
    << pc, run, prev, root_abs, stack, dirpath, filenames, total, per_file_dict,
       last_path, file_loc, ignoreCalls, countCalls, listed >>

(***************************************************************************)
(* count_file_loc(path)                                                    *)
(***************************************************************************)
RECURSIVE CountCode(_)
\* the read loop over the lines delivered: loc += 1 for each code line
CountCode(lines) ==
    IF lines = <<>> THEN 0
    ELSE (IF is_code_line(Head(lines)) THEN 1 ELSE 0) + CountCode(Tail(lines))

\* the lines the read loop sees before the file ends or OSError is raised
Delivered(path, flt) ==
    IF path \notin flt.files THEN Lines(path)
    ELSE IF flt.at = "open" THEN <<>>
    ELSE SubSeq(Lines(path), 1, IF flt.ok < Len(Lines(path)) THEN flt.ok ELSE Len(Lines(path)))

\* loc starts at 0, counts the lines delivered, and is returned whether or not
\* OSError was caught
count_file_loc(path, flt) == CountCode(Delivered(path, flt))

(***************************************************************************)
(* iter_python_files / os.walk                                             *)
(***************************************************************************)
\* os.scandir(top) succeeds on a directory and raises OSError otherwise
IsDir(top) == top \in TreeDirs

\* what should_ignore answers for each child directory of dp
DirAnswers(dp, dirnames, pats, root, hidden, wd) ==
    [d \in dirnames |-> should_ignore(PathJoin(dp, d), pats, root, hidden, wd)]

\* a plausible slip: the list is rebound, not pruned in place, so os.walk keeps
\* every directory
KeptDirsUnpruned(dirnames, answers) == dirnames

\* dirnames[:] = [d for d in dirnames if not should_ignore(join(dirpath, d), ...)]
KeptDirs(dirnames, answers) == {d \in dirnames : ~answers[d]}

\* a plausible slip: files are not passed through should_ignore
YieldsUnfiltered(name, ign) == EndsWith(name, <<".", "p", "y">>)

\* whether the file loop yields the file called name, should_ignore having
\* answered ign for its full path
Yields(name, ign) == ~ign /\ EndsWith(name, <<".", "p", "y">>)

\* m with key k set to value v (d[k] = v)
MapSet(m, k, v) == [q \in DOMAIN m \cup {k} |-> IF q = k THEN v ELSE m[q]]

\* a plausible slip: total = file_loc
NewTotalAssigned(old, loc) == loc

\* total += file_loc
NewTotal(old, loc) == old + loc

\* the root iter_python_files walks: root_path = os.path.abspath(root_path)
RootAbs == AbsPath(root_path, cwd)

\* a plausible slip: the walk starts at the directory that holds a root that is
\* a file
WalkTopOrParent(top) ==
    IF top \in TreeFiles THEN SubSeq(top, 1, LastIndex(top, "/") - 1) ELSE top

\* the top directory os.walk is given
WalkTop(top) == top

(***************************************************************************)
(* The scan: count_loc driving iter_python_files and count_file_loc.       *)
(***************************************************************************)
ScanIdle ==
    /\ root_abs = <<>>
    /\ stack = <<>>
    /\ dirpath = <<>>
    /\ filenames = {}
    /\ total = 0
    /\ per_file_dict = EmptyMap
    /\ last_path = <<>>
    /\ file_loc = 0
    /\ ignoreCalls = EmptyMap
    /\ countCalls = EmptyMap
    /\ listed = {}

Init ==
    /\ root_path \in RootPaths
    /\ ignore_patterns \in PatternLists
    /\ include_hidden \in BOOLEAN
    /\ per_file \in BOOLEAN
    /\ cwd \in ScanCwds
    /\ fault \in Faults
    /\ pc = "start"
    /\ run = 1
    /\ prev = [done |-> FALSE, per_file |-> EmptyMap, total |-> 0]
    /\ ScanIdle
    /\ line = <<>>
    /\ is_code = "none"
    /\ entry = <<>>
    /\ arg_path = <<>>
    /\ ignored = "none"

\* a plausible slip: total is kept in a module-level variable and not reset
CallCountLocStale ==
    /\ pc = "start"
    /\ pc' = "walk"
    /\ total' = total
    /\ per_file_dict' = EmptyMap
    /\ root_abs' = RootAbs
    /\ stack' = <<WalkTop(RootAbs)>>
    /\ dirpath' = <<>>
    /\ filenames' = {}
    /\ last_path' = <<>>
    /\ file_loc' = 0
    /\ ignoreCalls' = EmptyMap
    /\ countCalls' = EmptyMap
    /\ listed' = {}
    /\ UNCHANGED << inputVars, run, prev, lineVars >>

\* count_loc is called: total = 0, per_file_dict = {}, and the walk starts at
\* the absolute root
CallCountLoc ==
    /\ pc = "start"
    /\ pc' = "walk"
    /\ total' = 0
    /\ per_file_dict' = EmptyMap
    /\ root_abs' = RootAbs
    /\ stack' = <<WalkTop(RootAbs)>>
    /\ dirpath' = <<>>
    /\ filenames' = {}
    /\ last_path' = <<>>
    /\ file_loc' = 0
    /\ ignoreCalls' = EmptyMap
    /\ countCalls' = EmptyMap
    /\ listed' = {}
    /\ UNCHANGED << inputVars, run, prev, lineVars >>

\* os.walk takes the next directory: lists it (a top that cannot be listed is
\* skipped without an error), the loop body prunes its child directories, and
\* the kept ones are walked, in the order of the listing, once its files are done
WalkDir ==
    /\ pc = "walk"
    /\ filenames = {}
    /\ stack # <<>>
    /\ LET top == Head(stack)
       IN  IF IsDir(top)
           THEN LET answers == DirAnswers(top, ChildDirs(top), ignore_patterns, root_abs,
                                          include_hidden, cwd)
                    kept == KeptDirs(ChildDirs(top), answers)
                IN  /\ listed' = listed \cup {top}
                    /\ ignoreCalls' =
                         [q \in DOMAIN ignoreCalls \cup {PathJoin(top, d) : d \in ChildDirs(top)} |->
                            IF \E d \in ChildDirs(top) : q = PathJoin(top, d)
                            THEN answers[BaseName(q)]
                            ELSE ignoreCalls[q]]
                    /\ \E order \in Perms(kept) :
                           stack' = [i \in 1..Len(order) |-> PathJoin(top, order[i])]
                                        \o Tail(stack)
                    /\ dirpath' = top
                    /\ filenames' = ChildFiles(top)
           ELSE /\ stack' = Tail(stack)
                /\ UNCHANGED << listed, ignoreCalls, dirpath, filenames >>
    /\ UNCHANGED << inputVars, pc, run, prev, root_abs, total, per_file_dict, last_path,
                    file_loc, countCalls, lineVars >>

\* one turn of the file loop, and, when the file is yielded, one turn of the
\* loop of count_loc
FileStep ==
    /\ pc = "walk"
    /\ \E name \in filenames :
         LET full_path == PathJoin(dirpath, name)
             ign == should_ignore(full_path, ignore_patterns, root_abs, include_hidden, cwd)
         IN  /\ filenames' = filenames \ {name}
             /\ ignoreCalls' = MapSet(ignoreCalls, full_path, ign)
             /\ IF Yields(name, ign)
                THEN LET loc == count_file_loc(full_path, fault)
                     IN  /\ last_path' = full_path
                         /\ file_loc' = loc
                         /\ countCalls' =
                              MapSet(countCalls, full_path,
                                     IF full_path \in DOMAIN countCalls
                                     THEN countCalls[full_path] + 1 ELSE 1)
                         /\ total' = NewTotal(total, loc)
                         /\ per_file_dict' =
                              IF per_file THEN MapSet(per_file_dict, full_path, loc)
                              ELSE per_file_dict
                ELSE UNCHANGED << last_path, file_loc, countCalls, total, per_file_dict >>
    /\ UNCHANGED << inputVars, pc, run, prev, root_abs, stack, dirpath, listed, lineVars >>

\* the walk is exhausted: count_loc returns
Return ==
    /\ pc = "walk"
    /\ filenames = {}
    /\ stack = <<>>
    /\ pc' = "done"
    /\ UNCHANGED << inputVars, run, prev, root_abs, stack, dirpath, filenames, total,
                    per_file_dict, last_path, file_loc, ignoreCalls, countCalls, listed,
                    lineVars >>

\* the caller keeps what the first scan returned and scans again, the tree
\* and the arguments unchanged
Rescan ==
    /\ pc = "done"
    /\ run = 1
    /\ run' = 2
    /\ prev' = [done |-> TRUE, per_file |-> per_file_dict, total |-> total]
    /\ pc' = "start"
    /\ UNCHANGED << inputVars, root_abs, stack, dirpath, filenames, total, per_file_dict,
                    last_path, file_loc, ignoreCalls, countCalls, listed, lineVars >>

\* one scan
Next == CallCountLoc \/ WalkDir \/ FileStep \/ Return

Spec == Init /\ [][Next]_vars

\* a scan, and the same scan once more
NextTwice == Next \/ Rescan

SpecTwice == Init /\ [][NextTwice]_vars

(***************************************************************************)
(* The line classifier on its own: is_code_line applied to every line of   *)
(* at most MaxLineLen characters.                                          *)
(***************************************************************************)
LineChars == {" ", "\t", "\n", "#", "x", "\""}

NoScan ==
    /\ per_file = TRUE
    /\ fault = NoFault
    /\ pc = "done"
    /\ run = 1
    /\ prev = [done |-> FALSE, per_file |-> EmptyMap, total |-> 0]
    /\ ScanIdle

InitLine ==
    /\ line \in SeqsUpTo(LineChars, MaxLineLen)
    /\ is_code = "none"
    /\ root_path = Root
    /\ ignore_patterns = <<>>
    /\ include_hidden = FALSE
    /\ cwd = Slash
    /\ NoScan
    /\ entry = <<>>
    /\ arg_path = <<>>
    /\ ignored = "none"

Classify ==
    /\ is_code = "none"
    /\ is_code' = IF is_code_line(line) THEN "yes" ELSE "no"
    /\ UNCHANGED << inputVars, scanVars, line, entry, arg_path, ignored >>

NextLine == Classify

SpecLine == InitLine /\ [][NextLine]_vars

(***************************************************************************)
(* The ignore matcher on its own: should_ignore asked about an entry of    *)
(* the tree, with a pattern list that holds the entry's own path.          *)
(***************************************************************************)
\* the working directories should_ignore is called in
Cwds == {Slash, Root, SubDir, <<"/", "x">>}

\* the roots should_ignore is called with
MatchRoots == {Root, SubDir}

\* p lies strictly below directory d
IsUnder(p, d) == StartsWith(p, d \o Slash)

\* the files and directories of the tree
TreePaths == TreeDirs \cup TreeFiles

\* a pattern that matches no entry of the tree
OtherPattern == <<"z", "z">>

\* the pattern lists of at most MaxPatterns patterns that hold pattern pat
ListsHolding(pat) ==
    {l \in SeqsUpTo({pat, OtherPattern}, MaxPatterns) : \E i \in 1..Len(l) : l[i] = pat}

InitMatch ==
    /\ root_path \in MatchRoots
    /\ cwd \in Cwds
    /\ include_hidden \in BOOLEAN
    /\ entry \in {e \in TreePaths : IsUnder(e, root_path)}
    \* the entry as the caller names it: its absolute path, its path relative to
    \* the working directory, its path relative to the root
    /\ arg_path \in {entry, RelPath(entry, cwd, cwd), RelPath(entry, root_path, cwd)}
    \* the pattern: the entry's absolute path, or its path relative to the root
    /\ \E pat \in {entry, RelPath(entry, root_path, cwd)} :
           ignore_patterns \in ListsHolding(pat)
    /\ ignored = "none"
    /\ line = <<>>
    /\ is_code = "none"
    /\ NoScan

MatchCall ==
    /\ ignored = "none"
    /\ ignored' = IF should_ignore(arg_path, ignore_patterns, root_path, include_hidden, cwd)
                  THEN "yes" ELSE "no"
    /\ UNCHANGED << inputVars, scanVars, line, is_code, entry, arg_path >>

NextMatch == MatchCall

SpecMatch == InitMatch /\ [][NextMatch]_vars

(***************************************************************************)
(* Properties.                                                             *)
(***************************************************************************)
\* should_ignore was asked about p in this scan and answered ans
Answered(p, ans) == p \in DOMAIN ignoreCalls /\ ignoreCalls[p] = ans

\* the directories strictly between the root and p
Ancestors(p) == {d \in TreeDirs : IsUnder(d, root_abs) /\ IsUnder(p, d)}

\* the directory that holds p
Parent(p) == SubSeq(p, 1, LastIndex(p, "/") - 1)

HiddenName(p) == StartsWith(BaseName(p), <<".">>)

IsPy(p) == EndsWith(p, <<".", "p", "y">>)

\* p shows in no result and no call of the scan
Untouched(p) ==
    /\ p \notin listed
    /\ p \notin DOMAIN ignoreCalls
    /\ p \notin DOMAIN countCalls
    /\ p \notin DOMAIN per_file_dict

\* C1: a directory below the root for which should_ignore returned true is
\* never listed, nothing of its subtree is yielded, counted, mapped or passed to
\* should_ignore, and a directory is listed only after should_ignore was asked
\* about it and returned false.
C1_PrunedSubtreeNeverVisited ==
    /\ \A d \in TreeDirs :
         Answered(d, TRUE) =>
            /\ d \notin listed
            /\ \A q \in TreePaths : IsUnder(q, d) => Untouched(q)
    /\ \A d \in listed \ {root_abs} : Answered(d, FALSE)

\* C1, its case: a scan that ended, in which sub was pruned by pattern "sub" and
\* files outside it were counted
C1_Witness ==
    /\ pc = "done"
    /\ root_abs = Root
    /\ ignore_patterns = <<NSub>>
    /\ Answered(SubDir, TRUE)
    /\ PathJoin(Root, NApy) \in DOMAIN countCalls

\* an entry is part of the results of the scan: a directory was listed, a .py
\* file was yielded (and mapped, under per_file)
Included(p) ==
    IF p \in TreeDirs THEN p \in listed
    ELSE IsPy(p) => (p \in DOMAIN countCalls /\ (per_file => p \in DOMAIN per_file_dict))

Excluded(p) == p \notin listed /\ p \notin DOMAIN countCalls /\ p \notin DOMAIN per_file_dict

\* the entries below the root whose basename starts with '.'
HiddenEntries == {p \in TreePaths : IsUnder(p, root_abs) /\ HiddenName(p)}

\* C2 as stated: a hidden entry is excluded when include_hidden is false and
\* included when it is true (its directory having been walked), whatever the
\* pattern list.
C2_Original ==
    \A p \in HiddenEntries :
        /\ ~include_hidden => Excluded(p)
        /\ (include_hidden /\ pc = "done" /\ Parent(p) \in listed) => Included(p)

\* C2, amended: a hidden entry is excluded when include_hidden is false, whatever
\* the pattern list (should_ignore returns true for it, even with the empty
\* list); when include_hidden is true it is included unless should_ignore
\* returns true for it, which it does for no entry when the list is empty.
C2_HiddenPolicy ==
    \A p \in HiddenEntries :
        /\ ~include_hidden =>
             /\ Excluded(p)
             /\ p \in DOMAIN ignoreCalls => ignoreCalls[p]
             /\ (pc = "done" /\ Parent(p) \in listed) => Answered(p, TRUE)
        /\ (include_hidden /\ pc = "done" /\ Parent(p) \in listed) =>
             /\ p \in DOMAIN ignoreCalls
             /\ ~ignoreCalls[p] => Included(p)
             /\ ignore_patterns = <<>> => ~ignoreCalls[p]

\* C2, its case: a scan with an empty pattern list and include_hidden false that
\* looked at the hidden file .h.py and left it out, while counting a.py
C2_Witness ==
    /\ pc = "done"
    /\ ~include_hidden
    /\ ignore_patterns = <<>>
    /\ Answered(PathJoin(Root, NHpy), TRUE)
    /\ PathJoin(Root, NHpy) \notin DOMAIN countCalls
    /\ PathJoin(Root, NApy) \in DOMAIN countCalls

\* C3: with per_file, after every file processed the total is the sum of the
\* values of the mapping, neither is negative, and the latest file's entry is
\* the count that was added to the total.
C3_TotalIsSumOfMapping ==
    per_file =>
        /\ total = SumMap(per_file_dict)
        /\ total >= 0
        /\ \A p \in DOMAIN per_file_dict : per_file_dict[p] >= 0
        /\ last_path # <<>> => per_file_dict[last_path] = file_loc

\* C3, its case: in the middle of a scan, several files counted, more to come
C3_Witness ==
    /\ pc = "walk"
    /\ per_file
    /\ Cardinality(DOMAIN per_file_dict) >= 2
    /\ total >= 3
    /\ filenames # {}

\* C4: every yielded file is in the mapping when the scan ends; an unreadable
\* one with value 0, every other one with its own count.
C4_UnreadableKeptAsZero ==
    (per_file /\ pc = "done") =>
        \A p \in DOMAIN countCalls :
            /\ p \in DOMAIN per_file_dict
            /\ p \in fault.files => per_file_dict[p] = 0
            /\ p \notin fault.files => per_file_dict[p] = CountCode(Lines(p))

\* C5: count_file_loc returns 0 whenever opening or reading the file failed.
C5_FailureReturnsZero ==
    last_path \in fault.files => file_loc = 0

\* C8: the scan repeated on the unchanged tree returns the mapping and the total
\* the first scan returned.
C8_RescanIdentical ==
    (run = 2 /\ pc = "done") =>
        /\ per_file_dict = prev.per_file
        /\ total = prev.total

\* C8, its case: a repeated scan that ended, the first having counted files
C8_Witness ==
    /\ run = 2
    /\ pc = "done"
    /\ prev.done
    /\ prev.total >= 3
    /\ Cardinality(DOMAIN prev.per_file) >= 2

\* the files the scan is to yield: below the root, named *.py, not ignored, no
\* ancestor below the root ignored
Expected ==
    {p \in TreeFiles :
        /\ IsUnder(p, root_abs)
        /\ IsPy(p)
        /\ ~should_ignore(p, ignore_patterns, root_abs, include_hidden, cwd)
        /\ \A d \in Ancestors(p) :
              ~should_ignore(d, ignore_patterns, root_abs, include_hidden, cwd)}

\* C9: a path is yielded at most once, as an absolute path, and only if it is a
\* file below the root named *.py for which, and for whose ancestors below the
\* root, should_ignore returned false; when the scan ends the files yielded, and
\* the mapping's keys, are exactly the files of that description, those that
\* count 0 included.
C9_YieldedExactlyExpected ==
    /\ \A p \in DOMAIN countCalls :
          /\ countCalls[p] = 1
          /\ IsAbs(p)
          /\ p \in TreeFiles /\ IsUnder(p, root_abs) /\ IsPy(p)
          /\ Answered(p, FALSE)
          /\ \A d \in Ancestors(p) : Answered(d, FALSE)
    /\ pc = "done" =>
         /\ DOMAIN countCalls = Expected
         /\ per_file => DOMAIN per_file_dict = Expected

\* C9, its case: a scan that ended with e.py, which has no code line, mapped to
\* 0, a file ignored by pattern left out, and files of a subdirectory mapped
C9_Witness ==
    /\ pc = "done"
    /\ per_file
    /\ ignore_patterns = <<PathJoin(NSub, NBpy)>>
    /\ PathJoin(Root, NEpy) \in DOMAIN per_file_dict
    /\ per_file_dict[PathJoin(Root, NEpy)] = 0
    /\ PathJoin(InDir, NCpy) \in DOMAIN per_file_dict
    /\ PathJoin(SubDir, NBpy) \notin DOMAIN per_file_dict

CodeBeforeHash(l) ==
    \E i \in 1..Len(l) :
        /\ l[i] \notin Whitespace
        /\ \A j \in 1..i : l[j] # "#"

\* C7: is_code_line returns true exactly when the text before the first '#'
\* holds a non-whitespace character, quoted or not.
C7_CodeIffTextBeforeHash ==
    is_code # "none" => (is_code = "yes" <=> CodeBeforeHash(line))

\* C7, its case: the line "#" in quotes is classified as code, for the quote
\* before the '#'
C7_Witness ==
    /\ line = <<"\"", "#", "\"">>
    /\ is_code = "yes"

\* C6 as stated: should_ignore is true whenever the pattern list holds the
\* entry's absolute or root-relative path, however the entry is named.
C6_Original ==
    ignored # "none" => ignored = "yes"

\* C6, amended: should_ignore is true when the pattern list holds the entry's
\* absolute or root-relative path, provided the entry's path below the root has
\* no '[' and the entry is named by its absolute path or by a relative path
\* that the working directory resolves to it.
C6_PathPatternMatches ==
    (/\ ignored # "none"
     /\ AbsPath(arg_path, cwd) = entry
     /\ \A i \in 1..Len(RelPath(entry, root_path, cwd)) :
            RelPath(entry, root_path, cwd)[i] # "[")
        => ignored = "yes"

\* C6, its case: a nested file named relative to a working directory that is
\* not the root, the pattern being its absolute path
C6_Witness ==
    /\ ignored = "yes"
    /\ root_path = Root
    /\ cwd = SubDir
    /\ include_hidden
    /\ entry = PathJoin(InDir, NCpy)
    /\ arg_path = PathJoin(NIn, NCpy)
    /\ ignore_patterns = <<entry>>

====
